---- MODULE Spec2Model ----
(***************************************************************************)
(* Model of the Feedbin MCP server (src/feedbin_mcp/server.py).            *)
(*                                                                         *)
(* Every tool is a coroutine that builds one HTTP request, sends it with a *)
(* freshly constructed httpx.AsyncClient and turns the response into a     *)
(* textual result or an exception.  The model keeps, for every invocation  *)
(* slot of the host, the position of the coroutine, the request it sent,   *)
(* the response it got and its outcome; the process environment holding    *)
(* the credentials; the set of open clients; and the two upstream          *)
(* collections (unread ids, starred ids) the mutation tools change.        *)
(***************************************************************************)
EXTENDS Integers, Sequences, FiniteSets, TLC

VARIABLES env, inv, open, unread, starred, last

vars == <<env, inv, open, unread, starred, last>>

----------------------------------------------------------------------------
(* Bounds of the model *)

MaxEntryId == 2
MaxPage == 2

EntryIds == 1..MaxEntryId
Pages == 1..MaxPage
PerPages == {-1, 0, 50, 100, 101, 250}
FeedIds == {-1, 0, 3}
SinceValues == {"", "2024-01-01T00:00:00.000000Z"}
IdsValues == {"", "1,2"}
CredValues == {"", "user@example.com"}
Statuses == {200, 302, 404, 503}

RECURSIVE SeqsUpTo(_, _)
SeqsUpTo(S, n) ==
    IF n = 0 THEN {<<>>}
    ELSE LET shorter == SeqsUpTo(S, n - 1)
         IN  shorter \cup {Append(s, x) : s \in shorter, x \in S}

Range(s) == {s[k] : k \in DOMAIN s}

RECURSIVE SortedSeq(_)
SortedSeq(S) ==
    IF S = {} THEN <<>>
    ELSE LET m == CHOOSE x \in S : \A y \in S : x <= y
         IN  <<m>> \o SortedSeq(S \ {m})

\* The entry_ids lists a caller passes: every list without repetition, in
\* every order, and one list that names an entry twice.
EntryIdLists ==
    {s \in SeqsUpTo(EntryIds, MaxEntryId) : Cardinality(Range(s)) = Len(s)}
        \cup {<<1, 1>>}

----------------------------------------------------------------------------
(* Program constants and pure helpers *)

BASE_URL == "https://api.feedbin.com/v2"

MaxPerPage == 100

Min(a, b) == IF a < b THEN a ELSE b

\* os.environ.get(name): the value, or None (the empty sequence) when unset.
EnvGet(e, name) == IF name \in DOMAIN e THEN <<e[name]>> ELSE <<>>

\* Python's `not x` for an optional string: None and "" are both falsy.
Falsy(x) == x = <<>> \/ x = <<"">>

\* Variant: fails only when both credentials are missing.
CredentialsMissingBoth(e) ==
    Falsy(EnvGet(e, "FEEDBIN_EMAIL")) /\ Falsy(EnvGet(e, "FEEDBIN_PASSWORD"))

CredentialsMissing(e) ==
    Falsy(EnvGet(e, "FEEDBIN_EMAIL")) \/ Falsy(EnvGet(e, "FEEDBIN_PASSWORD"))

\* json.dumps(obj): the text of a JSON document, kept as the document.
JsonDumps(obj) == [json |-> obj]

\* _fmt(data): json.dumps(data, indent=2, ensure_ascii=False).
Fmt(data) == [json |-> data, indent |-> 2, ensure_ascii |-> FALSE]

\* Variant: the page size is passed through without the cap.
PerPageUncapped(per_page) == per_page

PerPageParam(per_page) == Min(per_page, MaxPerPage)

----------------------------------------------------------------------------
(* The fifteen tools: their arguments and the request each one builds *)

ReadOps ==
    {"get_subscriptions", "get_feed", "get_unread_entries", "get_read_entries",
     "get_starred_entries", "get_entries", "get_entry", "get_unread_entry_ids",
     "get_starred_entry_ids", "get_tags", "get_taggings"}

MutationOps ==
    {"mark_entries_read", "mark_entries_unread", "star_entries", "unstar_entries"}

Ops == ReadOps \cup MutationOps

PagedOps == {"get_unread_entries", "get_read_entries", "get_starred_entries"}

\* The argument values the host may pass to each tool.
ArgsOf(op) ==
    CASE op \in PagedOps ->
           [page : Pages, per_page : PerPages]
      [] op = "get_entries" ->
           [page : Pages, per_page : PerPages, since : SinceValues,
            feed_id : FeedIds, ids : IdsValues]
      [] op = "get_feed" -> [feed_id : FeedIds]
      [] op = "get_entry" -> [entry_id : EntryIds]
      [] op \in MutationOps -> [entry_ids : EntryIdLists]
      [] OTHER -> {<<>>}

\* The arguments of a call that leaves every optional argument unset.
DefaultArgsOf(op) ==
    CASE op \in PagedOps -> {[page |-> 1, per_page |-> 50]}
      [] op = "get_entries" ->
           {[page |-> 1, per_page |-> 50, since |-> "", feed_id |-> 0, ids |-> ""]}
      [] op = "get_feed" -> {[feed_id |-> 3]}
      [] op = "get_entry" -> {[entry_id |-> 1]}
      [] op \in MutationOps -> {[entry_ids |-> <<1>>]}
      [] OTHER -> {<<>>}

NoParams == <<>>
NoBody == <<>>

GetUnreadEntriesParams(page, per_page) ==
    [read |-> "false", page |-> page, per_page |-> PerPageParam(per_page)]

GetReadEntriesParams(page, per_page) ==
    [read |-> "true", page |-> page, per_page |-> PerPageParam(per_page)]

GetStarredEntriesParams(page, per_page) ==
    [starred |-> "true", page |-> page, per_page |-> PerPageParam(per_page)]

\* Variant: the optional filters are always sent, empty or not.
GetEntriesParamsAlways(page, per_page, since, ids) ==
    [page |-> page, per_page |-> PerPageParam(per_page), since |-> since, ids |-> ids]

GetEntriesParams(page, per_page, since, ids) ==
    LET base == [page |-> page, per_page |-> PerPageParam(per_page)]
        withSince == IF since # "" THEN ("since" :> since) @@ base ELSE base
    IN  IF ids # "" THEN ("ids" :> ids) @@ withSince ELSE withSince

\* Variant: the feed-agnostic path whatever feed_id is.
GetEntriesUrlAgnostic(feed_id) == BASE_URL \o "/entries.json"

GetEntriesUrl(feed_id) ==
    IF feed_id # 0
    THEN BASE_URL \o "/feeds/" \o ToString(feed_id) \o "/entries.json"
    ELSE BASE_URL \o "/entries.json"

\* Variant: every mutation is sent as a DELETE.
MethodOfDeleteOnly(op) == IF op \in MutationOps THEN "DELETE" ELSE "GET"

\* Variant: every mutation is sent as a POST.
MethodOfPostOnly(op) == IF op \in MutationOps THEN "POST" ELSE "GET"

MethodOf(op) ==
    CASE op \in {"mark_entries_read", "unstar_entries"} -> "DELETE"
      [] op \in {"mark_entries_unread", "star_entries"} -> "POST"
      [] OTHER -> "GET"

UrlOf(op, args) ==
    CASE op = "get_subscriptions" -> BASE_URL \o "/subscriptions.json"
      [] op = "get_feed" -> BASE_URL \o "/feeds/" \o ToString(args.feed_id) \o ".json"
      [] op \in PagedOps -> BASE_URL \o "/entries.json"
      [] op = "get_entries" -> GetEntriesUrl(args.feed_id)
      [] op = "get_entry" -> BASE_URL \o "/entries/" \o ToString(args.entry_id) \o ".json"
      [] op \in {"get_unread_entry_ids", "mark_entries_read", "mark_entries_unread"} ->
           BASE_URL \o "/unread_entries.json"
      [] op \in {"get_starred_entry_ids", "star_entries", "unstar_entries"} ->
           BASE_URL \o "/starred_entries.json"
      [] op = "get_tags" -> BASE_URL \o "/tags.json"
      [] op = "get_taggings" -> BASE_URL \o "/taggings.json"

ParamsOf(op, args) ==
    CASE op = "get_unread_entries" -> GetUnreadEntriesParams(args.page, args.per_page)
      [] op = "get_read_entries" -> GetReadEntriesParams(args.page, args.per_page)
      [] op = "get_starred_entries" -> GetStarredEntriesParams(args.page, args.per_page)
      [] op = "get_entries" ->
           GetEntriesParams(args.page, args.per_page, args.since, args.ids)
      [] OTHER -> NoParams

\* Variant: the ids are deduplicated and sorted before they are sent.
BodyOfNormalised(op, args) ==
    CASE op \in {"mark_entries_read", "mark_entries_unread"} ->
           <<JsonDumps([unread_entries |-> SortedSeq(Range(args.entry_ids))])>>
      [] op \in {"star_entries", "unstar_entries"} ->
           <<JsonDumps([starred_entries |-> SortedSeq(Range(args.entry_ids))])>>
      [] OTHER -> NoBody

\* content=json.dumps({"unread_entries": entry_ids}) and its starred twin.
BodyOf(op, args) ==
    CASE op \in {"mark_entries_read", "mark_entries_unread"} ->
           <<JsonDumps([unread_entries |-> args.entry_ids])>>
      [] op \in {"star_entries", "unstar_entries"} ->
           <<JsonDumps([starred_entries |-> args.entry_ids])>>
      [] OTHER -> NoBody

RequestOf(op, args) ==
    [method |-> MethodOf(op), url |-> UrlOf(op, args),
     params |-> ParamsOf(op, args), body |-> BodyOf(op, args)]

\* The acknowledgement a mutation tool returns after raise_for_status passed.
AckOf(op, args) ==
    CASE op = "mark_entries_read" ->
           JsonDumps([status |-> "ok", marked_read |-> args.entry_ids])
      [] op = "mark_entries_unread" ->
           JsonDumps([status |-> "ok", marked_unread |-> args.entry_ids])
      [] op = "star_entries" ->
           JsonDumps([status |-> "ok", starred |-> args.entry_ids])
      [] op = "unstar_entries" ->
           JsonDumps([status |-> "ok", unstarred |-> args.entry_ids])

----------------------------------------------------------------------------
(* The upstream service, as the tools' documentation describes it: the     *)
(* unread and the starred collection are sets of entry ids; POST adds the  *)
(* ids of the body to the collection the URL names, DELETE removes them.   *)

IsSuccess(status) == status >= 200 /\ status <= 299

BodyIds(req, key) ==
    IF req.body # NoBody /\ key \in DOMAIN req.body[1].json
    THEN Range(req.body[1].json[key])
    ELSE {}

UpstreamApply(req, path, key, coll) ==
    IF req.url # BASE_URL \o path THEN coll
    ELSE CASE req.method = "POST" -> coll \cup BodyIds(req, key)
           [] req.method = "DELETE" -> coll \ BodyIds(req, key)
           [] OTHER -> coll

UpstreamUnread(req, coll) == UpstreamApply(req, "/unread_entries.json", "unread_entries", coll)

UpstreamStarred(req, coll) == UpstreamApply(req, "/starred_entries.json", "starred_entries", coll)

\* The JSON array a response carries: the ids of a collection for the two
\* id endpoints, otherwise documents the tools relay without looking inside.
ResponseBody(req, status, u, s) ==
    IF ~IsSuccess(status) THEN <<[error |-> status]>>
    ELSE IF req.method = "GET" /\ req.url = BASE_URL \o "/unread_entries.json"
         THEN SortedSeq(u)
    ELSE IF req.method = "GET" /\ req.url = BASE_URL \o "/starred_entries.json"
         THEN SortedSeq(s)
    ELSE <<[document |-> req.url]>>

----------------------------------------------------------------------------
(* Clients and invocation slots *)

\* httpx.AsyncClient(...): a new object, distinct from every open one.
NewClient(o) == CHOOSE c \in 1..(Cardinality(o) + 1) : c \notin o /\ \A d \in 1..(c - 1) : d \in o

\* Variant: the client is left open.
CloseNothing(o, c) == o

\* __aexit__ of `async with`: the client is closed.
Close(o, c) == o \ {c}

\* Variant: the request is sent a second time.
IssueRequestTwice(sent) == sent + 2

\* One call of client.get / client.post / client.request.
IssueRequest(sent) == sent + 1

\* Variant: only 4xx and 5xx raise.
RaiseForClientOrServerError(status) == status >= 400

\* Response.raise_for_status(): TRUE when it raises.
RaiseForStatus(status) == ~IsSuccess(status)

IdleSlot ==
    [pc |-> "idle", op |-> "", args |-> <<>>, client |-> 0, sent |-> 0,
     request |-> <<>>, response |-> <<>>, outcome |-> <<>>]

ConfigError ==
    [kind |-> "RuntimeError", status |-> 0,
     value |-> <<"FEEDBIN_EMAIL and FEEDBIN_PASSWORD environment variables must be set.">>]

\* What the coroutine does with the response once it resumes.
OutcomeOf(op, args, resp) ==
    IF resp.kind = "transport_error"
    THEN [kind |-> "TransportError", status |-> 0, value |-> <<>>]
    ELSE IF RaiseForStatus(resp.status)
    THEN [kind |-> "HTTPStatusError", status |-> resp.status, value |-> <<>>]
    ELSE [kind |-> "ok", status |-> resp.status,
          value |-> IF op \in MutationOps THEN <<AckOf(op, args)>>
                    ELSE <<Fmt(resp.body)>>]

----------------------------------------------------------------------------
(* Observer of the mutations the upstream served: the last one, the        *)
(* collection before it, and whether it undid the one served just before.  *)

NoLast == [op |-> "", ids |-> <<>>, before |-> {}, rt |-> FALSE, origin |-> {}]

UndoneBy(op) ==
    CASE op = "mark_entries_unread" -> "mark_entries_read"
      [] op = "unstar_entries" -> "star_entries"
      [] OTHER -> "none"

Record(l, op, args, u, s) ==
    LET before == IF op \in {"mark_entries_read", "mark_entries_unread"} THEN u ELSE s
        rt == l.op = UndoneBy(op) /\ Range(l.ids) = Range(args.entry_ids)
    IN  [op |-> op, ids |-> args.entry_ids, before |-> before,
         rt |-> rt, origin |-> IF rt THEN l.before ELSE {}]

----------------------------------------------------------------------------
(* Initial states *)

Envs ==
    UNION {[names -> CredValues] : names \in SUBSET {"FEEDBIN_EMAIL", "FEEDBIN_PASSWORD"}}

InitWith(slots, ids) ==
    /\ env \in Envs
    /\ inv = [i \in slots |-> IdleSlot]
    /\ open = {}
    /\ unread \in SUBSET ids
    /\ starred \in SUBSET ids
    /\ last = NoLast

(* Actions *)

\* The host calls tool op with args in slot i: the coroutine runs up to its
\* first network await (lines 15-26 and the `async with` / request lines).
Invoke(i, op, args) ==
    /\ inv[i].pc = "idle"
    /\ IF CredentialsMissing(env)
       THEN /\ inv' = [inv EXCEPT ![i] =
                          [IdleSlot EXCEPT !.pc = "done", !.op = op, !.args = args,
                                           !.outcome = <<ConfigError>>]]
            /\ open' = open
       ELSE LET c == NewClient(open)
                req == RequestOf(op, args) @@
                       [auth |-> <<EnvGet(env, "FEEDBIN_EMAIL"), EnvGet(env, "FEEDBIN_PASSWORD")>>]
            IN  /\ inv' = [inv EXCEPT ![i] =
                              [IdleSlot EXCEPT !.pc = "awaiting", !.op = op, !.args = args,
                                               !.client = c,
                                               !.sent = IssueRequest(inv[i].sent),
                                               !.request = <<req>>]]
                /\ open' = open \cup {c}
    /\ last' = IF op \in MutationOps THEN last ELSE NoLast
    /\ UNCHANGED <<env, unread, starred>>

\* The upstream handles the request of slot i and answers with status.
Serve(i, status) ==
    /\ inv[i].pc = "awaiting"
    /\ LET req == inv[i].request[1]
           u == IF IsSuccess(status) THEN UpstreamUnread(req, unread) ELSE unread
           s == IF IsSuccess(status) THEN UpstreamStarred(req, starred) ELSE starred
       IN  /\ unread' = u
           /\ starred' = s
           /\ inv' = [inv EXCEPT ![i].pc = "responded",
                                 ![i].response =
                                     <<[kind |-> "response", status |-> status,
                                        body |-> ResponseBody(req, status, u, s)]>>]
           /\ last' = IF IsSuccess(status) /\ inv[i].op \in MutationOps
                      THEN Record(last, inv[i].op, inv[i].args, unread, starred)
                      ELSE NoLast
    /\ UNCHANGED <<env, open>>

\* The request of slot i ends in a transport error (connection failure, or
\* the 30 s timeout); the upstream may or may not have applied it.
TransportFail(i, applied) ==
    /\ inv[i].pc = "awaiting"
    /\ LET req == inv[i].request[1]
       IN  /\ unread' = IF applied THEN UpstreamUnread(req, unread) ELSE unread
           /\ starred' = IF applied THEN UpstreamStarred(req, starred) ELSE starred
    /\ inv' = [inv EXCEPT ![i].pc = "responded",
                          ![i].response =
                              <<[kind |-> "transport_error", status |-> 0, body |-> <<>>]>>]
    /\ last' = NoLast
    /\ UNCHANGED <<env, open>>

\* The coroutine of slot i resumes: raise_for_status, the return value, and
\* the exit of the `async with` block.
Complete(i) ==
    /\ inv[i].pc = "responded"
    /\ inv' = [inv EXCEPT ![i].pc = "done",
                          ![i].client = 0,
                          ![i].outcome =
                              <<OutcomeOf(inv[i].op, inv[i].args, inv[i].response[1])>>]
    /\ open' = Close(open, inv[i].client)
    /\ UNCHANGED <<env, unread, starred, last>>

\* The host takes the result; the slot is free for the next call.
Return(i) ==
    /\ inv[i].pc = "done"
    /\ inv' = [inv EXCEPT ![i] = IdleSlot]
    /\ UNCHANGED <<env, open, unread, starred, last>>

(* Specification: one host that calls the tools one after the other *)

Init == InitWith({1}, EntryIds)

Next ==
    \/ \E i \in DOMAIN inv, op \in Ops : \E args \in ArgsOf(op) : Invoke(i, op, args)
    \/ \E i \in DOMAIN inv, status \in Statuses : Serve(i, status)
    \/ \E i \in DOMAIN inv, applied \in BOOLEAN : TransportFail(i, applied)
    \/ \E i \in DOMAIN inv : Complete(i)
    \/ \E i \in DOMAIN inv : Return(i)

Spec == Init /\ [][Next]_vars

(* Specification: a host that keeps several calls in flight at once *)

\* Two slots: every property of concurrent calls stated here is about a pair.
\* The calls leave their optional arguments unset and name entry 1, so the
\* upstream collections start as subsets of {1}.
InitConcurrent == InitWith({1, 2}, {1})

NextConcurrent ==
    \/ \E i \in DOMAIN inv, op \in Ops : \E args \in DefaultArgsOf(op) : Invoke(i, op, args)
    \/ \E i \in DOMAIN inv, status \in Statuses : Serve(i, status)
    \/ \E i \in DOMAIN inv, applied \in BOOLEAN : TransportFail(i, applied)
    \/ \E i \in DOMAIN inv : Complete(i)
    \/ \E i \in DOMAIN inv : Return(i)

SpecConcurrent == InitConcurrent /\ [][NextConcurrent]_vars

TypeOK ==
    /\ \A i \in DOMAIN inv : inv[i].pc \in {"idle", "awaiting", "responded", "done"}
    /\ unread \subseteq EntryIds
    /\ starred \subseteq EntryIds

----------------------------------------------------------------------------
(* Properties *)

Slots == DOMAIN inv

\* A credential is missing when its variable is unset or set to "".
EmailMissing == "FEEDBIN_EMAIL" \notin DOMAIN env \/ env["FEEDBIN_EMAIL"] = ""
PasswordMissing == "FEEDBIN_PASSWORD" \notin DOMAIN env \/ env["FEEDBIN_PASSWORD"] = ""

Called(i) == inv[i].pc # "idle"
Sent(i) == inv[i].request # <<>>
Finished(i) == inv[i].pc = "done"
Succeeded(i) == Finished(i) /\ inv[i].outcome[1].kind = "ok"

\* C1: when FEEDBIN_EMAIL or FEEDBIN_PASSWORD is missing, every call of any
\* tool, whatever its arguments, ends at once in the configuration error and
\* has issued no HTTP request (and built no client).
C1_MissingCredentialsFailBeforeNetwork ==
    \A i \in Slots :
        (Called(i) /\ (EmailMissing \/ PasswordMissing)) =>
            /\ Finished(i)
            /\ inv[i].outcome[1].kind = "RuntimeError"
            /\ inv[i].sent = 0
            /\ inv[i].request = <<>>
            /\ inv[i].response = <<>>
            /\ open = {}

\* C1 witness: mark_entries_read called with the e-mail set and the password
\* unset has failed with the configuration error.
C1_Witness ==
    /\ ~EmailMissing
    /\ "FEEDBIN_PASSWORD" \notin DOMAIN env
    /\ \E i \in Slots :
          /\ Finished(i)
          /\ inv[i].op = "mark_entries_read"
          /\ inv[i].args.entry_ids = <<2, 1>>
          /\ inv[i].outcome[1].kind = "RuntimeError"
          /\ inv[i].sent = 0

ListingOps == {"get_unread_entries", "get_read_entries", "get_starred_entries", "get_entries"}

\* C2: in each of the four entry-listing tools the per_page query parameter
\* sent is 100 for an argument above 100 and the argument itself otherwise
\* (zero and negative values included).
C2_PerPageCappedAt100 ==
    \A i \in Slots :
        (Sent(i) /\ inv[i].op \in ListingOps) =>
            LET arg == inv[i].args.per_page
                sent == inv[i].request[1].params.per_page
            IN  /\ arg > 100 => sent = 100
                /\ arg <= 100 => sent = arg

\* C2 witness: get_starred_entries with per_page=250 has sent per_page=100.
C2_Witness ==
    \E i \in Slots :
        /\ Sent(i)
        /\ inv[i].op = "get_starred_entries"
        /\ inv[i].args.per_page = 250
        /\ inv[i].request[1].params.per_page = 100

\* C5: get_entries targets /entries.json when feed_id is 0 and
\* /feeds/{feed_id}/entries.json for any other feed_id, and never sends a
\* feed_id query parameter.
C5_FeedIdSelectsPath ==
    \A i \in Slots :
        (Sent(i) /\ inv[i].op = "get_entries") =>
            LET f == inv[i].args.feed_id
                req == inv[i].request[1]
            IN  /\ f = 0 => req.url = "https://api.feedbin.com/v2/entries.json"
                /\ f # 0 => req.url = "https://api.feedbin.com/v2/feeds/"
                                        \o ToString(f) \o "/entries.json"
                /\ "feed_id" \notin DOMAIN req.params
                /\ req.method = "GET"

\* C5 witness: get_entries with feed_id=3 and both filters set has sent its
\* request to the path of feed 3.
C5_Witness ==
    \E i \in Slots :
        /\ Sent(i)
        /\ inv[i].op = "get_entries"
        /\ inv[i].args.feed_id = 3
        /\ inv[i].args.since # ""
        /\ inv[i].args.ids # ""
        /\ inv[i].request[1].url = "https://api.feedbin.com/v2/feeds/3/entries.json"

\* C6: get_entries sends the since (ids) query parameter exactly when the
\* argument is non-empty, with the argument as its value; page and per_page
\* are always sent.
C6_OptionalFiltersOmittedWhenEmpty ==
    \A i \in Slots :
        (Sent(i) /\ inv[i].op = "get_entries") =>
            LET a == inv[i].args
                params == inv[i].request[1].params
            IN  /\ ("since" \in DOMAIN params) <=> (a.since # "")
                /\ "since" \in DOMAIN params => params.since = a.since
                /\ ("ids" \in DOMAIN params) <=> (a.ids # "")
                /\ "ids" \in DOMAIN params => params.ids = a.ids
                /\ {"page", "per_page"} \subseteq DOMAIN params
                /\ DOMAIN params \subseteq {"page", "per_page", "since", "ids"}
                /\ params.page = a.page

\* C6 witness: get_entries with since set and ids empty has sent since and
\* no ids parameter.
C6_Witness ==
    \E i \in Slots :
        /\ Sent(i)
        /\ inv[i].op = "get_entries"
        /\ inv[i].args.since = "2024-01-01T00:00:00.000000Z"
        /\ inv[i].args.ids = ""
        /\ DOMAIN inv[i].request[1].params = {"page", "per_page", "since"}

\* C7: a call whose response has a status outside 200..299 ends in a failure
\* that carries that status and returns no value, for read and mutation
\* tools alike.
C7_NonSuccessStatusFails ==
    \A i \in Slots :
        (/\ Finished(i)
         /\ inv[i].response # <<>>
         /\ inv[i].response[1].kind = "response"
         /\ ~(inv[i].response[1].status \in 200..299)) =>
            /\ inv[i].outcome[1].kind = "HTTPStatusError"
            /\ inv[i].outcome[1].status = inv[i].response[1].status
            /\ inv[i].outcome[1].value = <<>>

\* C7 witness: get_entry answered with 404 has failed with status 404.
C7_Witness ==
    \E i \in Slots :
        /\ Finished(i)
        /\ inv[i].op = "get_entry"
        /\ inv[i].response # <<>>
        /\ inv[i].response[1].status = 404
        /\ inv[i].outcome[1].kind = "HTTPStatusError"
        /\ inv[i].outcome[1].status = 404

\* C8: a call issues at most one HTTP request, exactly one once it has
\* finished with the credentials present, whether it succeeded or failed;
\* get_unread_entries(page=2, per_page=250) issues one GET of /entries.json
\* with read=false, page=2, per_page=100.
C8_OneRequestPerCall ==
    \A i \in Slots :
        /\ inv[i].sent <= 1
        /\ (Called(i) /\ ~EmailMissing /\ ~PasswordMissing) => inv[i].sent = 1
        /\ (/\ Sent(i)
            /\ inv[i].op = "get_unread_entries"
            /\ inv[i].args.page = 2
            /\ inv[i].args.per_page = 250) =>
               /\ inv[i].request[1].method = "GET"
               /\ inv[i].request[1].url = "https://api.feedbin.com/v2/entries.json"
               /\ inv[i].request[1].params = [read |-> "false", page |-> 2, per_page |-> 100]
               /\ inv[i].request[1].body = <<>>

\* C8 witness: mark_entries_unread answered with 503 has finished in failure
\* having issued one request.
C8_Witness ==
    \E i \in Slots :
        /\ Finished(i)
        /\ inv[i].op = "mark_entries_unread"
        /\ inv[i].response # <<>>
        /\ inv[i].response[1].status = 503
        /\ inv[i].outcome[1].kind = "HTTPStatusError"
        /\ inv[i].sent = 1

Holding(i) == inv[i].client # 0

\* C9: a client is open only while the call that built it is in flight: a
\* call that has ended (result, HTTP status error or transport error) holds
\* no client and has left none open, and two calls never hold the same one.
C9_ClientReleasedOnEveryExit ==
    /\ \A i \in Slots : Holding(i) <=> inv[i].pc \in {"awaiting", "responded"}
    /\ open = {inv[i].client : i \in {j \in Slots : Holding(j)}}
    /\ \A i, j \in Slots : (i # j /\ Holding(i) /\ Holding(j)) => inv[i].client # inv[j].client

\* C9 witness: one call has ended in a transport error and another in an HTTP
\* status error both have released their clients.
C9_Witness ==
    \E i, j \in Slots :
        /\ Finished(i)
        /\ inv[i].outcome[1].kind = "TransportError"
        /\ Finished(j)
        /\ inv[j].outcome[1].kind = "HTTPStatusError"
        /\ open = {}

MutationKey(op) ==
    IF op \in {"mark_entries_read", "mark_entries_unread"}
    THEN "unread_entries" ELSE "starred_entries"

\* C10: a successful mutation call returns {"status": "ok", <operation>:
\* entry_ids} and has sent {<collection>: entry_ids} as its body, entry_ids
\* being the caller's list as given.
C10_MutationAcknowledgesCallerIds ==
    \A i \in Slots :
        (Succeeded(i) /\ inv[i].op \in MutationOps) =>
            LET ids == inv[i].args.entry_ids
                ack == inv[i].outcome[1].value[1].json
                body == inv[i].request[1].body[1].json
            IN  /\ ack.status = "ok"
                /\ inv[i].op = "mark_entries_read" => ack = [status |-> "ok", marked_read |-> ids]
                /\ inv[i].op = "mark_entries_unread" => ack = [status |-> "ok", marked_unread |-> ids]
                /\ inv[i].op = "star_entries" => ack = [status |-> "ok", starred |-> ids]
                /\ inv[i].op = "unstar_entries" => ack = [status |-> "ok", unstarred |-> ids]
                /\ DOMAIN body = {MutationKey(inv[i].op)}
                /\ body[MutationKey(inv[i].op)] = ids

\* C10 witness: unstar_entries([2, 1]) has succeeded.
C10_Witness ==
    \E i \in Slots :
        /\ Succeeded(i)
        /\ inv[i].op = "unstar_entries"
        /\ inv[i].args.entry_ids = <<2, 1>>
        /\ inv[i].outcome[1].value[1].json.unstarred = <<2, 1>>

RoundTripServed(op) == last.op = op /\ last.rt

\* C3 as stated: after a successful mark_entries_read(S) directly followed
\* by a successful mark_entries_unread(S), the unread collection is the one
\* before the first call.
C3_Original_ReadUnreadRoundTrips ==
    RoundTripServed("mark_entries_unread") => unread = last.origin

\* C3 amended: the same, for lists S whose ids were all unread before the
\* first call.
C3_ReadUnreadRoundTripsOnUnreadIds ==
    (RoundTripServed("mark_entries_unread") /\ Range(last.ids) \subseteq last.origin)
        => unread = last.origin

\* C3 witness: the round trip has been served for a non-empty list of ids
\* that were unread, with another id unread besides.
C3_Witness ==
    /\ RoundTripServed("mark_entries_unread")
    /\ last.ids = <<1>>
    /\ last.origin = {1, 2}
    /\ last.before = {2}
    /\ unread = {1, 2}

\* C4 as stated: after a successful star_entries(S) followed by a successful
\* unstar_entries(S), the starred collection is the one before the first call.
C4_Original_StarUnstarRoundTrips ==
    RoundTripServed("unstar_entries") => starred = last.origin

\* C4 amended: the same, for lists S none of whose ids was starred before
\* the first call.
C4_StarUnstarRoundTripsOnUnstarredIds ==
    (RoundTripServed("unstar_entries") /\ Range(last.ids) \cap last.origin = {})
        => starred = last.origin

\* C4 witness: the round trip has been served for a non-empty list of ids
\* that were not starred, with another id starred besides.
C4_Witness ==
    /\ RoundTripServed("unstar_entries")
    /\ last.ids = <<1>>
    /\ last.origin = {2}
    /\ last.before = {1, 2}
    /\ starred = {2}

====
